---- MODULE Spec2Model ----
(***************************************************************************)
(* NBA same-game-parlay builder: the prop selection loop of app.py and the *)
(* odds / confidence arithmetic of utils.py.                               *)
(*                                                                         *)
(* Numbers.  Python floats are modelled as exact rationals <<n, d>> with   *)
(* d > 0, kept in lowest terms.  Lines, season averages and odds are       *)
(* integers.  None is the empty tuple <<>>, and a present value v is <<v>>.*)
(* Dictionaries are sequences of [key, val] entries in insertion order.    *)
(***************************************************************************)
EXTENDS Integers, Sequences, FiniteSets, TLC

-----------------------------------------------------------------------------
(* Bounds of the model *)

\* most games the user selects in the multiselect (the program allows 12)
MaxGames == 4
\* most outcomes in one small bookmaker response
MaxOutcomes == 3
\* largest magnitude of a single American odds value fed to the odds math
MaxOddsSteps == 40

(* Program constants *)

\* app.py:23 default odds range when the filter is off
DefaultMinOdds == -1000
DefaultMaxOdds == 1000
\* app.py:25,26 default values of the Min Odds / Max Odds inputs
FilterMinOdds == -350
FilterMaxOdds == 200
\* app.py:40 props per game is a number input in 1..8
MinPropsPerGame == 1
MaxPropsPerGame == 8
\* app.py:99 at least two games
MinSelectedGames == 2
\* app.py:191 at most 24 props in total
MaxTotalProps == 24

-----------------------------------------------------------------------------
(* Rational arithmetic standing for Python float arithmetic *)

Abs(x) == IF x < 0 THEN -x ELSE x

RECURSIVE GCD(_, _)
GCD(a, b) == IF b = 0 THEN a ELSE GCD(b, a % b)

\* the rational n/d in lowest terms with a positive denominator
Frac(n, d) ==
    LET s == IF d < 0 THEN -1 ELSE 1
        g == GCD(Abs(n), Abs(d))
    IN  <<(s * n) \div g, (s * d) \div g>>

FInt(n) == <<n, 1>>
FAdd(a, b) == Frac(a[1] * b[2] + b[1] * a[2], a[2] * b[2])
FSub(a, b) == Frac(a[1] * b[2] - b[1] * a[2], a[2] * b[2])
\* cross-reduced before multiplying, so that intermediate products stay small
FMul(a, b) ==
    LET g1 == GCD(Abs(a[1]), b[2])
        g2 == GCD(Abs(b[1]), a[2])
    IN  Frac((a[1] \div g1) * (b[1] \div g2), (a[2] \div g2) * (b[2] \div g1))
FDiv(a, b) == FMul(a, Frac(b[2], b[1]))
FLt(a, b) == a[1] * b[2] < b[1] * a[2]
FLe(a, b) == a[1] * b[2] <= b[1] * a[2]
FMax(a, b) == IF FLt(a, b) THEN b ELSE a
FMin(a, b) == IF FLt(b, a) THEN b ELSE a

\* round(x, 0): nearest integer, halves to the even neighbour
RoundHalfEven(a) ==
    LET fl == a[1] \div a[2]
        r2 == 2 * (a[1] - fl * a[2])
    IN  IF r2 < a[2] THEN fl
        ELSE IF r2 > a[2] THEN fl + 1
        ELSE IF fl % 2 = 0 THEN fl ELSE fl + 1

None == <<>>
Some(v) == <<v>>

-----------------------------------------------------------------------------
(* utils.py: odds math *)

\* the decimal odds of one leg, as calculate_parlay_odds computes it
DecimalOdds(odds) ==
    IF odds < 0 THEN FAdd(FInt(1), Frac(Abs(odds), 100))
    ELSE FAdd(Frac(odds, 100), FInt(1))

RECURSIVE Prod(_)
Prod(decs) == IF decs = <<>> THEN FInt(1) ELSE FMul(Head(decs), Prod(Tail(decs)))

\* A result of the odds math: <<"num", n>> is the number n, <<"-inf">> is
\* the float -inf that numpy yields for -100 / 0.0, and <<"InvalidOdds">>
\* is an explicit failure.
Num(n) == <<"num", n>>
NegInf == <<"-inf">>
InvalidOdds == <<"InvalidOdds">>

calculate_parlay_odds(odds_list) ==
    IF odds_list = <<>> THEN Num(0)
    ELSE LET decimal_odds == [i \in 1..Len(odds_list) |-> DecimalOdds(odds_list[i])]
             final_decimal_odds == Prod(decimal_odds)
         IN  IF FLt(FInt(2), final_decimal_odds)
             THEN Num(RoundHalfEven(FMul(FSub(final_decimal_odds, FInt(1)), FInt(100))))
             ELSE IF final_decimal_odds = FInt(1)
                  THEN NegInf
                  ELSE Num(RoundHalfEven(FDiv(FInt(-100), FSub(final_decimal_odds, FInt(1)))))

\* the result is <<"bool", b>>; the function has no failing path
detect_line_discrepancies(book_odds, confidence) ==
    LET implied_odds == FDiv(FInt(1), DecimalOdds(book_odds))
    IN  <<"bool", FLt(FMul(implied_odds, Frac(11, 10)), confidence)>>

-----------------------------------------------------------------------------
(* utils.py: confidence scoring *)

\* the first boundary taken as exclusive
get_initial_confidence_strict(odds) ==
    IF odds < -300 THEN Frac(9, 10)
    ELSE IF -299 <= odds /\ odds <= -200 THEN Frac(8, 10)
    ELSE IF -199 <= odds /\ odds <= -100 THEN Frac(7, 10)
    ELSE IF -99 <= odds /\ odds <= 100 THEN Frac(6, 10)
    ELSE Frac(5, 10)

get_initial_confidence(odds) ==
    IF odds <= -300 THEN Frac(9, 10)
    ELSE IF -299 <= odds /\ odds <= -200 THEN Frac(8, 10)
    ELSE IF -199 <= odds /\ odds <= -100 THEN Frac(7, 10)
    ELSE IF -99 <= odds /\ odds <= 100 THEN Frac(6, 10)
    ELSE Frac(5, 10)

\* str.lower() on the direction names the bookmaker sends
Lower(s) ==
    CASE s = "Over" -> "over"
      [] s = "Under" -> "under"
      [] OTHER -> s

\* a clamp that forgets the lower bound
ClampUpperOnly(x) == FMin(x, FInt(1))

\* min(max(x, 0), 1)
Clamp01(x) == FMin(FMax(x, FInt(0)), FInt(1))

\* the relative deviation of a stat from the line, in the prop's direction
Adjustment(stat, prop_line, direction) ==
    IF Lower(direction) = "over"
    THEN IF prop_line > 0 THEN Frac(stat - prop_line, prop_line) ELSE FInt(0)
    ELSE IF prop_line > 0 THEN Frac(prop_line - stat, prop_line) ELSE FInt(0)

\* utils.py:316-321, the confidence after the season-average step
SeasonStep(confidence, avg_stat, prop_line, direction) ==
    Clamp01(FAdd(confidence, FMul(Adjustment(avg_stat, prop_line, direction), Frac(3, 10))))

\* utils.py:324-330, the confidence after the historical step
HistoricalStep(confidence, hist_stat, prop_line, direction) ==
    Clamp01(FAdd(confidence, FMul(Adjustment(hist_stat, prop_line, direction), Frac(2, 10))))

\* "if historical_stat:" is false for None and for 0
Truthy(opt) == opt # None /\ opt[1] # 0

adjust_confidence_with_stats(confidence, avg_stat, prop_line, direction, historical_stat) ==
    IF avg_stat = None THEN confidence
    ELSE LET c1 == SeasonStep(confidence, avg_stat[1], prop_line, direction)
         IN  IF Truthy(historical_stat)
             THEN HistoricalStep(c1, historical_stat[1], prop_line, direction)
             ELSE c1

-----------------------------------------------------------------------------
(* utils.py: fetch_props, the grouping of a bookmaker response *)

\* market['key'].replace('player_', '')
StripPlayerPrefix(key) ==
    IF Len(key) >= 7 /\ SubSeq(key, 1, 7) = "player_"
    THEN SubSeq(key, 8, Len(key))
    ELSE key

\* dictionary helpers; a dictionary is a sequence of [key, val] entries
HasKey(dict, k) == \E i \in 1..Len(dict) : dict[i].key = k
DictAppend(dict, k, v) ==
    IF HasKey(dict, k)
    THEN [i \in 1..Len(dict) |->
            IF dict[i].key = k THEN [key |-> k, val |-> Append(dict[i].val, v)] ELSE dict[i]]
    ELSE Append(dict, [key |-> k, val |-> <<v>>])

\* utils.py:273-285, the entry one outcome adds to props
PropOfOutcome(market_key, outcome) ==
    LET prop_type == StripPlayerPrefix(market_key)
        player == outcome.description
        direction == outcome.name
    IN  [prop_name |-> player \o " " \o direction \o " " \o ToString(outcome.point) \o " " \o prop_type,
         odds |-> outcome.price,
         prop_type |-> prop_type,
         point |-> outcome.point,
         direction |-> direction,
         player |-> player]

GroupKey(prop) == prop.player \o "_" \o prop.prop_type \o "_" \o prop.direction

\* utils.py:266-288: the outcomes of the first bookmaker, in response
\* order, grouped by player, prop type and direction
RECURSIVE GroupOutcomes(_, _)
GroupOutcomes(outcomes, props) ==
    IF outcomes = <<>> THEN props
    ELSE LET prop == PropOfOutcome(Head(outcomes).market, Head(outcomes))
         IN  GroupOutcomes(Tail(outcomes), DictAppend(props, GroupKey(prop), prop))

fetch_props(outcomes) == GroupOutcomes(outcomes, <<>>)

-----------------------------------------------------------------------------
(* app.py:114-125, the filters *)

\* app.py:119 the test a group must pass under the odds range filter
OddsInRange(prop_list, lo, hi) ==
    \A i \in 1..Len(prop_list) : lo <= prop_list[i].odds /\ prop_list[i].odds <= hi

\* app.py:124
TypeAllowed(prop_list, types) == prop_list[1].prop_type \in types

FilterByOdds(props, use_filter, lo, hi) ==
    IF use_filter
    THEN LET Keep(e) == OddsInRange(e.val, lo, hi) IN SelectSeq(props, Keep)
    ELSE props

FilterByType(props, types) ==
    IF types # {}
    THEN LET Keep(e) == TypeAllowed(e.val, types) IN SelectSeq(props, Keep)
    ELSE props

-----------------------------------------------------------------------------
(* app.py:131-160, scoring *)

\* prop_type[:3]
StatKey(prop_type) == SubSeq(prop_type, 1, 3)

\* dict.get(key, None) on a record of stats
DictGet(rec, k) == IF k \in DOMAIN rec THEN Some(rec[k]) ELSE None

\* app.py:142
SeasonStat(player_stats, stat_key) ==
    IF player_stats # None /\ "season" \in DOMAIN player_stats
    THEN DictGet(player_stats.season, stat_key)
    ELSE None

\* app.py:143
HistoricalStat(player_stats, stat_key) ==
    IF player_stats # None /\ "historical" \in DOMAIN player_stats
       /\ player_stats.historical # None
    THEN DictGet(player_stats.historical, stat_key)
    ELSE None

\* app.py:146-160, the entry of prop_confidence_list for one alternate line;
\* line_discrepancy holds the flag itself instead of the marker string
ScoredProp(prop_data, player, prop_type, direction, season_stat, historical_stat) ==
    LET confidence_score ==
            adjust_confidence_with_stats(get_initial_confidence(prop_data.odds),
                season_stat, prop_data.point, prop_data.direction, historical_stat)
    IN  [prop_name |-> prop_data.prop_name,
         confidence |-> confidence_score,
         odds |-> prop_data.odds,
         line_discrepancy |-> detect_line_discrepancies(prop_data.odds, confidence_score)[2],
         player_stat_key |-> player \o "_" \o prop_type,
         prop_type |-> prop_type,
         direction |-> direction,
         point |-> prop_data.point]

\* app.py:133-160 for one key of filtered_props
ScoreGroup(prop_list, stats) ==
    LET player == prop_list[1].player
        prop_type == prop_list[1].prop_type
        direction == prop_list[1].direction
        player_stats == stats[player]
        stat_key == StatKey(prop_type)
        season_stat == SeasonStat(player_stats, stat_key)
        historical_stat == HistoricalStat(player_stats, stat_key)
    IN  [i \in 1..Len(prop_list) |->
            ScoredProp(prop_list[i], player, prop_type, direction, season_stat, historical_stat)]

RECURSIVE ScoreAll(_, _)
ScoreAll(props, stats) ==
    IF props = <<>> THEN <<>>
    ELSE ScoreGroup(Head(props).val, stats) \o ScoreAll(Tail(props), stats)

-----------------------------------------------------------------------------
(* app.py:162-172, sorting and the selection walk *)

\* an unstable sort: x goes in front of the entries it ties with
InsertPosBeforeTies(sorted, x) ==
    Cardinality({i \in 1..Len(sorted) : FLt(x.confidence, sorted[i].confidence)})

\* where a stable descending sort puts x in an already sorted list: behind
\* every entry whose confidence is at least x's
InsertPos(sorted, x) ==
    Cardinality({i \in 1..Len(sorted) : ~FLt(sorted[i].confidence, x.confidence)})

InsertSorted(sorted, x) ==
    LET pos == InsertPos(sorted, x)
    IN  SubSeq(sorted, 1, pos) \o <<x>> \o SubSeq(sorted, pos + 1, Len(sorted))

\* sorted(prop_confidence_list, key=confidence, reverse=True)
RECURSIVE SortFrom(_, _)
SortFrom(list, sorted) ==
    IF list = <<>> THEN sorted
    ELSE SortFrom(Tail(list), InsertSorted(sorted, Head(list)))

\* the walk over the list as built, with the sort left out
Unsorted(list) == list

SortByConfidence(list) == SortFrom(list, <<>>)

\* the admission test without the key check
AdmitsIgnoringKeys(player_stat_key, keys, chosen, per_game) ==
    Len(chosen) < per_game

\* the admission test without the per-game cap
AdmitsIgnoringCap(player_stat_key, keys, chosen, per_game) ==
    player_stat_key \notin keys

\* app.py:170
Admits(player_stat_key, keys, chosen, per_game) ==
    player_stat_key \notin keys /\ Len(chosen) < per_game

\* app.py:178
OddsOf(props) == [i \in 1..Len(props) |-> props[i].odds]

RECURSIVE SumLens(_)
SumLens(entries) ==
    IF entries = <<>> THEN 0 ELSE Len(Head(entries).val) + SumLens(Tail(entries))

-----------------------------------------------------------------------------
(* app.py:207-219, the final summary *)

\* the leg limit with its digits transposed
LegLimitTransposed(total) == total > 42

\* app.py:191
OverLegLimit(total) == total > MaxTotalProps

\* the summary branch taken for an empty selection too
HasLegsOrNone(total) == total >= 0

\* app.py:193
HasLegs(total) == total > 0

\* app.py:215-218; -inf is not > 0 and wager / inf is 0.0
Payout(wager, final) ==
    IF final = NegInf THEN FInt(0)
    ELSE IF final[2] > 0 THEN FMul(FInt(wager), Frac(final[2], 100))
    ELSE FDiv(FInt(wager), Frac(Abs(final[2]), 100))

-----------------------------------------------------------------------------
(* Inputs: what the sidebar, the bookmaker and the stats source supply *)

Outcome(player, market, name, point, price) ==
    [description |-> player, market |-> market, name |-> name, point |-> point, price |-> price]

\* outcomes a small response is made of: alternate lines of one group, both
\* directions of one player and stat, two players, odds on both sides of
\* the filter range
SampleOutcomes ==
    { Outcome("A", "player_points", "Over", 20, -110),
      Outcome("A", "player_points", "Over", 25, 300),
      Outcome("A", "player_points", "Under", 20, -110),
      Outcome("A", "player_rebounds", "Over", 8, -250),
      Outcome("A", "player_rebounds", "Under", 8, 150),
      Outcome("B", "player_rebounds", "Over", 10, -400),
      Outcome("B", "player_points", "Over", 20, -110),
      Outcome("B", "player_assists", "Over", 5, 100) }

RECURSIVE SeqsUpTo(_, _)
SeqsUpTo(S, n) ==
    IF n = 0 THEN {<<>>}
    ELSE LET shorter == SeqsUpTo(S, n - 1)
         IN  shorter \cup {Append(q, x) : q \in {r \in shorter : Len(r) = n - 1}, x \in S}

SmallResponses == SeqsUpTo(SampleOutcomes, MaxOutcomes)

\* a full slate: three players, the three markets fetch_props asks for
\* (utils.py:249), one line each, at even odds
FullSlate ==
    << Outcome("A", "player_points", "Over", 20, -100),
       Outcome("A", "player_rebounds", "Over", 8, 100),
       Outcome("A", "player_assists", "Over", 5, -100),
       Outcome("B", "player_points", "Over", 20, 100),
       Outcome("B", "player_rebounds", "Over", 10, -100),
       Outcome("B", "player_assists", "Over", 5, 100),
       Outcome("C", "player_points", "Over", 20, -100),
       Outcome("C", "player_rebounds", "Over", 8, 100),
       Outcome("C", "player_assists", "Over", 5, -100) >>

\* the responses of the props source, one per selected game: either one
\* small response followed by an empty one, or up to MaxGames games that
\* each have the full slate or nothing
Feeds ==
    {<<r, <<>>>> : r \in SmallResponses}
    \cup UNION {[1..n -> {<<>>, FullSlate}] : n \in 1..MaxGames}

\* results of fetch_player_stats per player
SeasonA == [pts |-> 22, reb |-> 10, ast |-> 5, stl |-> 1, blk |-> 1]
SeasonB == [pts |-> 18, reb |-> 12, ast |-> 4, stl |-> 2, blk |-> 0]
HistoricalA == [pts |-> 25, reb |-> 6, ast |-> 5, stl |-> 1, blk |-> 1, games_played |-> 2]

StatsSources ==
    { [p \in {"A", "B", "C"} |-> None],
      [p \in {"A", "B", "C"} |->
          CASE p = "A" -> [season |-> SeasonA, historical |-> HistoricalA]
            [] p = "B" -> [season |-> SeasonB, historical |-> None]
            [] OTHER -> None] }

AllPropTypes == {"points", "rebounds", "assists", "steals", "blocks"}
PropTypeChoices == {AllPropTypes, {"rebounds", "assists"}}

Wagers == {0, 10}

SingleOdds == {10 * k : k \in (-MaxOddsSteps)..MaxOddsSteps}
PairOdds == {-150, -100, 0, 100, 120}

Scores == {FInt(0), Frac(1, 2), Frac(3, 5), Frac(7, 10), Frac(4, 5), Frac(9, 10), FInt(1)}
StatValues == {None, Some(0), Some(5), Some(40)}
LineValues == {-5, 0, 2, 10}

-----------------------------------------------------------------------------
VARIABLES
    \* sidebar (app.py:22-42)
    use_odds_filter, min_odds, max_odds, prop_types, props_per_game,
    \* the environment: bookmaker responses per selected game, stats per player
    feed, stats_source,
    \* the build (app.py:99-226)
    pc, game, available_props, filtered_props, built_list, prop_confidence_list,
    walk, selected_prop_keys, game_selected_props,
    selected_props, total_props, odds_list, game_prop_data,
    final_odds, payout,
    \* the pure functions applied to drawn inputs
    fn, args, result,
    \* the retry loops of the fetch functions (utils.py:96-309): the retries
    \* counter, the number of requests sent, the outcome of the last request
    \* and the locals of fetch_player_stats
    retries, attempts, last_outcome, locals

config == <<use_odds_filter, min_odds, max_odds, prop_types, props_per_game>>
env == <<feed, stats_source>>
pergame == <<available_props, filtered_props, built_list, prop_confidence_list,
             walk, selected_prop_keys, game_selected_props>>
totals == <<selected_props, total_props, odds_list, game_prop_data>>
summary == <<final_odds, payout>>
pure == <<fn, args, result>>
fetching == <<retries, attempts, last_outcome, locals>>
vars == <<config, env, pc, game, pergame, totals, summary, pure, fetching>>

InitBuild ==
    /\ pc = "check_games"
    /\ game = 1
    /\ available_props = <<>>
    /\ filtered_props = <<>>
    /\ built_list = <<>>
    /\ prop_confidence_list = <<>>
    /\ walk = 1
    /\ selected_prop_keys = {}
    /\ game_selected_props = <<>>
    /\ selected_props = <<>>
    /\ total_props = 0
    /\ odds_list = <<>>
    /\ game_prop_data = <<>>
    /\ final_odds = None
    /\ payout = None

\* no fetch function is running
IdleFetching ==
    /\ retries = 0
    /\ attempts = 0
    /\ last_outcome = None
    /\ locals = None

InitConfig ==
    /\ use_odds_filter \in BOOLEAN
    /\ min_odds = IF use_odds_filter THEN FilterMinOdds ELSE DefaultMinOdds
    /\ max_odds = IF use_odds_filter THEN FilterMaxOdds ELSE DefaultMaxOdds
    /\ prop_types \in PropTypeChoices
    /\ props_per_game \in MinPropsPerGame..MaxPropsPerGame

Init ==
    /\ InitConfig
    /\ feed \in Feeds
    /\ stats_source \in StatsSources
    /\ InitBuild
    /\ fn = "none" /\ args = <<>> /\ result = None
    /\ IdleFetching

-----------------------------------------------------------------------------
(* app.py:99-188, the loop over the selected games *)

\* app.py:99-105
CheckGames ==
    /\ pc = "check_games"
    /\ pc' = IF Len(feed) < MinSelectedGames THEN "too_few" ELSE "fetch"
    /\ UNCHANGED <<config, env, game, pergame, totals, summary, pure, fetching>>

\* app.py:109-112
FetchProps ==
    /\ pc = "fetch"
    /\ game <= Len(feed)
    /\ available_props' = fetch_props(feed[game])
    /\ IF available_props' = <<>>
       THEN game' = game + 1 /\ pc' = "fetch"
       ELSE game' = game /\ pc' = "filter"
    /\ UNCHANGED <<config, env, filtered_props, built_list, prop_confidence_list,
                   walk, selected_prop_keys, game_selected_props, totals, summary, pure, fetching>>

\* app.py:114-129
FilterProps ==
    /\ pc = "filter"
    /\ filtered_props' =
          FilterByType(FilterByOdds(available_props, use_odds_filter, min_odds, max_odds),
                       prop_types)
    /\ IF filtered_props' = <<>>
       THEN game' = game + 1 /\ pc' = "fetch"
       ELSE game' = game /\ pc' = "score"
    /\ UNCHANGED <<config, env, available_props, built_list, prop_confidence_list,
                   walk, selected_prop_keys, game_selected_props, totals, summary, pure, fetching>>

\* app.py:131-160; built_list keeps the list in the order it was built
ScoreProps ==
    /\ pc = "score"
    /\ prop_confidence_list' = ScoreAll(filtered_props, stats_source)
    /\ built_list' = prop_confidence_list'
    /\ pc' = "sort"
    /\ UNCHANGED <<config, env, game, available_props, filtered_props,
                   walk, selected_prop_keys, game_selected_props, totals, summary, pure, fetching>>

\* app.py:162-167
SortProps ==
    /\ pc = "sort"
    /\ prop_confidence_list' = SortByConfidence(prop_confidence_list)
    /\ selected_prop_keys' = {}
    /\ game_selected_props' = <<>>
    /\ walk' = 1
    /\ pc' = "select"
    /\ UNCHANGED <<config, env, game, available_props, filtered_props, built_list,
                   totals, summary, pure, fetching>>

\* app.py:168-172, one iteration of the walk
SelectStep ==
    /\ pc = "select"
    /\ walk <= Len(prop_confidence_list)
    /\ LET prop_item == prop_confidence_list[walk]
           player_stat_key == prop_item.player_stat_key
       IN  IF Admits(player_stat_key, selected_prop_keys, game_selected_props, props_per_game)
           THEN /\ selected_prop_keys' = selected_prop_keys \cup {player_stat_key}
                /\ game_selected_props' = Append(game_selected_props, prop_item)
           ELSE UNCHANGED <<selected_prop_keys, game_selected_props>>
    /\ walk' = walk + 1
    /\ UNCHANGED <<config, env, pc, game, available_props, filtered_props, built_list,
                   prop_confidence_list, totals, summary, pure, fetching>>

\* app.py:174-188
FinishGame ==
    /\ pc = "select"
    /\ walk > Len(prop_confidence_list)
    /\ LET game_odds == OddsOf(game_selected_props)
           game_combined_odds ==
               IF game_odds # <<>> THEN calculate_parlay_odds(game_odds) ELSE Num(0)
       IN  /\ selected_props' = Append(selected_props, [key |-> game, val |-> game_selected_props])
           /\ total_props' = total_props + Len(game_selected_props)
           /\ odds_list' = odds_list \o game_odds
           /\ game_prop_data' = Append(game_prop_data,
                  [game |-> game, props |-> game_selected_props,
                   combined_odds |-> game_combined_odds,
                   num_props |-> Len(game_selected_props)])
    /\ game' = game + 1
    /\ pc' = "fetch"
    /\ UNCHANGED <<config, env, pergame, summary, pure, fetching>>

LoopDone == pc = "fetch" /\ game > Len(feed)

\* app.py:191-192
RejectLegLimit ==
    /\ LoopDone
    /\ OverLegLimit(total_props)
    /\ pc' = "rejected"
    /\ UNCHANGED <<config, env, game, pergame, totals, summary, pure, fetching>>

\* app.py:193-205, the branch into the summary and the per-game display
BeginSummary ==
    /\ LoopDone
    /\ ~OverLegLimit(total_props)
    /\ HasLegs(total_props)
    /\ pc' = "summary"
    /\ UNCHANGED <<config, env, game, pergame, totals, summary, pure, fetching>>

\* app.py:207-219, final combined odds and payout
ComposeParlay ==
    /\ pc = "summary"
    /\ \E wager \in Wagers :
          /\ final_odds' = Some(calculate_parlay_odds(odds_list))
          /\ payout' = Some(Payout(wager, final_odds'[1]))
    /\ pc' = "composed"
    /\ UNCHANGED <<config, env, game, pergame, totals, pure, fetching>>

\* app.py:225-226
EmptyResult ==
    /\ LoopDone
    /\ ~OverLegLimit(total_props)
    /\ ~HasLegs(total_props)
    /\ pc' = "empty"
    /\ UNCHANGED <<config, env, game, pergame, totals, summary, pure, fetching>>

Next ==
    \/ CheckGames
    \/ FetchProps
    \/ FilterProps
    \/ ScoreProps
    \/ SortProps
    \/ SelectStep
    \/ FinishGame
    \/ RejectLegLimit
    \/ BeginSummary
    \/ ComposeParlay
    \/ EmptyResult

Spec == Init /\ [][Next]_vars

-----------------------------------------------------------------------------
(* The pure functions of utils.py applied to drawn inputs *)

ParlayArgs ==
    {<<"calculate_parlay_odds", <<o>>>> : o \in SingleOdds}
    \cup {<<"calculate_parlay_odds", <<o1, o2>>>> : o1 \in PairOdds, o2 \in PairOdds}
    \cup {<<"calculate_parlay_odds", <<>>>>}

DetectArgs ==
    {<<"detect_line_discrepancies", o, c>> : o \in PairOdds, c \in Scores}

AdjustArgs ==
    {<<"adjust_confidence_with_stats", c, avg, line, dir, hist>> :
        c \in Scores, avg \in StatValues, line \in LineValues,
        dir \in {"Over", "Under"}, hist \in StatValues}

\* every integer odds value within the bound
ConfidenceArgs ==
    {<<"get_initial_confidence", o>> : o \in (-10 * MaxOddsSteps)..(10 * MaxOddsSteps)}

InitFn ==
    /\ use_odds_filter = FALSE
    /\ min_odds = DefaultMinOdds
    /\ max_odds = DefaultMaxOdds
    /\ prop_types = AllPropTypes
    /\ props_per_game = MinPropsPerGame
    /\ feed = <<>>
    /\ stats_source = [p \in {"A", "B", "C"} |-> None]
    /\ InitBuild
    /\ fn = "none"
    /\ result = None
    /\ IdleFetching
    /\ args \in ParlayArgs \cup DetectArgs \cup AdjustArgs \cup ConfidenceArgs

\* utils.py:358-368
CallParlayOdds ==
    /\ fn = "none"
    /\ args[1] = "calculate_parlay_odds"
    /\ result' = Some(calculate_parlay_odds(args[2]))
    /\ fn' = "returned"
    /\ UNCHANGED <<config, env, pc, game, pergame, totals, summary, args, fetching>>

\* utils.py:347-350
CallDetect ==
    /\ fn = "none"
    /\ args[1] = "detect_line_discrepancies"
    /\ result' = Some(detect_line_discrepancies(args[2], args[3]))
    /\ fn' = "returned"
    /\ UNCHANGED <<config, env, pc, game, pergame, totals, summary, args, fetching>>

\* utils.py:313-321, up to the end of the season step
AdjustSeason ==
    /\ fn = "none"
    /\ args[1] = "adjust_confidence_with_stats"
    /\ IF args[3] = None
       THEN result' = Some(args[2]) /\ fn' = "returned"
       ELSE /\ result' = Some(SeasonStep(args[2], args[3][1], args[4], args[5]))
            /\ fn' = "season_done"
    /\ UNCHANGED <<config, env, pc, game, pergame, totals, summary, args, fetching>>

\* utils.py:323-332
AdjustHistorical ==
    /\ fn = "season_done"
    /\ result' = IF Truthy(args[6])
                 THEN Some(HistoricalStep(result[1], args[6][1], args[4], args[5]))
                 ELSE result
    /\ fn' = "returned"
    /\ UNCHANGED <<config, env, pc, game, pergame, totals, summary, args, fetching>>

\* utils.py:334-345
CallInitialConfidence ==
    /\ fn = "none"
    /\ args[1] = "get_initial_confidence"
    /\ result' = Some(get_initial_confidence(args[2]))
    /\ fn' = "returned"
    /\ UNCHANGED <<config, env, pc, game, pergame, totals, summary, args, fetching>>

NextFn ==
    \/ CallParlayOdds
    \/ CallDetect
    \/ AdjustSeason
    \/ AdjustHistorical
    \/ CallInitialConfidence

SpecFn == InitFn /\ [][NextFn]_vars

-----------------------------------------------------------------------------
(* utils.py:196-309, the retry loops of fetch_odds_api_events and fetch_props *)

\* largest max_retries argument tried
MaxRetries == 3

\* what one requests.get / raise_for_status can end in: a response body,
\* HTTP 401, HTTP 429, another HTTP error, or a network error
ErrorKinds == {"401", "429", "500", "network"}
Ok(data) == [kind |-> "ok", data |-> data]
Failed(kind) == [kind |-> kind, data |-> None]

\* bodies of the events endpoint: a JSON list, or a JSON object
EventsBodies ==
    { <<"list", <<>>>>,
      <<"list", <<[id |-> "e1", home_team |-> "X", away_team |-> "T"]>>>>,
      <<"dict", [message |-> "quota"]>> }

\* bodies of the odds endpoint: the outcomes of the first bookmaker
PropsBodies == {r \in SmallResponses : Len(r) <= 1}

\* utils.py:218
EventsReturn(data) == IF data[1] = "list" THEN data[2] ELSE <<>>

\* the handler that treats every HTTP error as worth another attempt
RetryAnyError(kind) == "retry"

\* utils.py:220-236: what the except clauses do with a failed request
EventsOnError(kind) ==
    CASE kind = "401" -> "return_empty"
      [] kind = "429" -> "retry"
      [] kind = "network" -> "retry"
      [] OTHER -> "return_empty"

\* utils.py:290-306
PropsOnError(kind) ==
    CASE kind = "401" -> "return_empty"
      [] kind = "429" -> "retry"
      [] kind = "network" -> "retry"
      [] OTHER -> "return_empty"

EventsArgs ==
    {<<"fetch_odds_api_events", has_key, max_retries>> :
        has_key \in BOOLEAN, max_retries \in 1..MaxRetries}

PropsArgs ==
    {<<"fetch_props", has_key, max_retries>> :
        has_key \in BOOLEAN, max_retries \in 1..MaxRetries}

\* utils.py:198-211
EventsCall ==
    /\ fn = "none"
    /\ args[1] = "fetch_odds_api_events"
    /\ IF ~args[2]
       THEN result' = Some(<<>>) /\ fn' = "returned"
       ELSE result' = result /\ fn' = "events_loop"
    /\ retries' = 0
    /\ UNCHANGED <<config, env, pc, game, pergame, totals, summary, args,
                   attempts, last_outcome, locals>>

\* utils.py:212-236, one pass through the while loop
EventsAttempt ==
    /\ fn = "events_loop"
    /\ retries < args[3]
    /\ attempts' = attempts + 1
    /\ \E o \in {Ok(d) : d \in EventsBodies} \cup {Failed(k) : k \in ErrorKinds} :
          /\ last_outcome' = Some(o)
          /\ IF o.kind = "ok"
             THEN result' = Some(EventsReturn(o.data)) /\ fn' = "returned" /\ retries' = retries
             ELSE IF EventsOnError(o.kind) = "return_empty"
             THEN result' = Some(<<>>) /\ fn' = "returned" /\ retries' = retries
             ELSE result' = result /\ fn' = fn /\ retries' = retries + 1
    /\ UNCHANGED <<config, env, pc, game, pergame, totals, summary, args, locals>>

\* utils.py:238-239
EventsExhausted ==
    /\ fn = "events_loop"
    /\ ~(retries < args[3])
    /\ result' = Some(<<>>)
    /\ fn' = "returned"
    /\ UNCHANGED <<config, env, pc, game, pergame, totals, summary, args, fetching>>

\* utils.py:244-258
PropsCall ==
    /\ fn = "none"
    /\ args[1] = "fetch_props"
    /\ IF ~args[2]
       THEN result' = Some(<<>>) /\ fn' = "returned"
       ELSE result' = result /\ fn' = "props_loop"
    /\ retries' = 0
    /\ UNCHANGED <<config, env, pc, game, pergame, totals, summary, args,
                   attempts, last_outcome, locals>>

\* utils.py:259-306, one pass through the while loop
PropsAttempt ==
    /\ fn = "props_loop"
    /\ retries < args[3]
    /\ attempts' = attempts + 1
    /\ \E o \in {Ok(d) : d \in PropsBodies} \cup {Failed(k) : k \in ErrorKinds} :
          /\ last_outcome' = Some(o)
          /\ IF o.kind = "ok"
             THEN result' = Some(fetch_props(o.data)) /\ fn' = "returned" /\ retries' = retries
             ELSE IF PropsOnError(o.kind) = "return_empty"
             THEN result' = Some(<<>>) /\ fn' = "returned" /\ retries' = retries
             ELSE result' = result /\ fn' = fn /\ retries' = retries + 1
    /\ UNCHANGED <<config, env, pc, game, pergame, totals, summary, args, locals>>

\* utils.py:308-309
PropsExhausted ==
    /\ fn = "props_loop"
    /\ ~(retries < args[3])
    /\ result' = Some(<<>>)
    /\ fn' = "returned"
    /\ UNCHANGED <<config, env, pc, game, pergame, totals, summary, args, fetching>>

-----------------------------------------------------------------------------
(* utils.py:96-194, fetch_player_stats *)

GameLog(team_id, home_id, visitor_id, home_name, visitor_name, pts, reb) ==
    [team |-> [id |-> team_id, full_name |-> "T"],
     game |-> [home_team_id |-> home_id, visitor_team_id |-> visitor_id,
               home_team |-> [full_name |-> home_name],
               visitor_team |-> [full_name |-> visitor_name]],
     pts |-> pts, reb |-> reb, ast |-> 4, stl |-> 1, blk |-> 0]

\* games of a player of team T (id 1): at home against X, away at Y, away at X
SampleLogs ==
    { GameLog(1, 1, 2, "T", "X", 20, 6),
      GameLog(1, 3, 1, "Y", "T", 30, 9),
      GameLog(1, 2, 1, "X", "T", 25, 7) }

PlayersBodies == {<<>>, <<[id |-> 7]>>}
SeasonBodies == {<<>>, <<SeasonA>>}
LogsBodies == SeqsUpTo(SampleLogs, 2)

\* utils.py:168-174
IsOpponentGame(g, opponent_team) ==
    /\ g.team.full_name # opponent_team
    /\ LET is_home_team == g.game.home_team_id = g.team.id
           is_away_team == g.game.visitor_team_id = g.team.id
           home_opponent_match == is_home_team /\ g.game.visitor_team.full_name = opponent_team
           away_opponent_match == is_away_team /\ g.game.home_team.full_name = opponent_team
       IN  home_opponent_match \/ away_opponent_match

RECURSIVE SumOf(_)
SumOf(vals) == IF vals = <<>> THEN 0 ELSE Head(vals) + SumOf(Tail(vals))

\* np.mean
Mean(vals) == Frac(SumOf(vals), Len(vals))

\* utils.py:165-184
HistoricalStats(game_logs, opponent_team) ==
    LET Match(g) == IsOpponentGame(g, opponent_team)
        opponent_games == SelectSeq(game_logs, Match)
        Col(k) == [i \in 1..Len(opponent_games) |-> opponent_games[i][k]]
    IN  IF opponent_games # <<>>
        THEN [pts |-> Mean(Col("pts")), reb |-> Mean(Col("reb")), ast |-> Mean(Col("ast")),
              stl |-> Mean(Col("stl")), blk |-> Mean(Col("blk")),
              games_played |-> Len(opponent_games)]
        ELSE None

\* utils.py:194
StatsResult(season_stats, historical_stats) ==
    [season |-> season_stats, historical |-> historical_stats]

\* utils.py:191, what the game-log loop returns when its retries run out
LogsExhaustedReturn(season_stats) == season_stats

StatsArgs ==
    {<<"fetch_player_stats", has_key, max_retries, opponent_team>> :
        has_key \in BOOLEAN, max_retries \in 1..MaxRetries,
        opponent_team \in {None, Some("X")}}

\* utils.py:98-108
StatsCall ==
    /\ fn = "none"
    /\ args[1] = "fetch_player_stats"
    /\ IF ~args[2]
       THEN result' = Some(None) /\ fn' = "returned"
       ELSE result' = result /\ fn' = "stats_players"
    /\ retries' = 0
    /\ locals' = [player_id |-> None, season_stats |-> None]
    /\ UNCHANGED <<config, env, pc, game, pergame, totals, summary, args,
                   attempts, last_outcome>>

\* utils.py:109-131, one pass through the player lookup loop
StatsPlayersAttempt ==
    /\ fn = "stats_players"
    /\ retries < args[3]
    /\ attempts' = attempts + 1
    /\ \E o \in {Ok(d) : d \in PlayersBodies} \cup {Failed(k) : k \in ErrorKinds} :
          /\ last_outcome' = Some(o)
          /\ IF o.kind = "ok"
             THEN IF o.data = <<>>
                  THEN /\ result' = Some(None) /\ fn' = "returned"
                       /\ UNCHANGED <<retries, locals>>
                  ELSE /\ locals' = [locals EXCEPT !.player_id = Some(o.data[1].id)]
                       /\ fn' = "stats_season" /\ retries' = 0 /\ result' = result
             ELSE /\ retries' = retries + 1
                  /\ IF retries' = args[3]
                     THEN result' = Some(None) /\ fn' = "returned"
                     ELSE result' = result /\ fn' = fn
                  /\ locals' = locals
    /\ UNCHANGED <<config, env, pc, game, pergame, totals, summary, args>>

\* utils.py:132-159, one pass through the season averages loop; without
\* an opponent the function returns at utils.py:194
StatsSeasonAttempt ==
    /\ fn = "stats_season"
    /\ retries < args[3]
    /\ attempts' = attempts + 1
    /\ \E o \in {Ok(d) : d \in SeasonBodies} \cup {Failed(k) : k \in ErrorKinds} :
          /\ last_outcome' = Some(o)
          /\ IF o.kind = "ok"
             THEN IF o.data = <<>>
                  THEN /\ result' = Some(None) /\ fn' = "returned"
                       /\ UNCHANGED <<retries, locals>>
                  ELSE /\ locals' = [locals EXCEPT !.season_stats = Some(o.data[1])]
                       /\ IF args[4] # None
                          THEN fn' = "stats_logs" /\ retries' = 0 /\ result' = result
                          ELSE /\ result' = Some(StatsResult(o.data[1], None))
                               /\ fn' = "returned" /\ retries' = retries
             ELSE /\ retries' = retries + 1
                  /\ IF retries' = args[3]
                     THEN result' = Some(None) /\ fn' = "returned"
                     ELSE result' = result /\ fn' = fn
                  /\ locals' = locals
    /\ UNCHANGED <<config, env, pc, game, pergame, totals, summary, args>>

\* utils.py:160-194, one pass through the game log loop
StatsLogsAttempt ==
    /\ fn = "stats_logs"
    /\ retries < args[3]
    /\ attempts' = attempts + 1
    /\ \E o \in {Ok(d) : d \in LogsBodies} \cup {Failed(k) : k \in ErrorKinds} :
          /\ last_outcome' = Some(o)
          /\ IF o.kind = "ok"
             THEN /\ result' = Some(StatsResult(locals.season_stats[1],
                                                HistoricalStats(o.data, args[4][1])))
                  /\ fn' = "returned" /\ retries' = retries
             ELSE /\ retries' = retries + 1
                  /\ IF retries' = args[3]
                     THEN /\ result' = Some(LogsExhaustedReturn(locals.season_stats[1]))
                          /\ fn' = "returned"
                     ELSE result' = result /\ fn' = fn
    /\ UNCHANGED <<config, env, pc, game, pergame, totals, summary, args, locals>>

InitFetch ==
    /\ use_odds_filter = FALSE
    /\ min_odds = DefaultMinOdds
    /\ max_odds = DefaultMaxOdds
    /\ prop_types = AllPropTypes
    /\ props_per_game = MinPropsPerGame
    /\ feed = <<>>
    /\ stats_source = [p \in {"A", "B", "C"} |-> None]
    /\ InitBuild
    /\ fn = "none"
    /\ result = None
    /\ IdleFetching
    /\ args \in EventsArgs \cup PropsArgs \cup StatsArgs

NextFetch ==
    \/ EventsCall
    \/ EventsAttempt
    \/ EventsExhausted
    \/ PropsCall
    \/ PropsAttempt
    \/ PropsExhausted
    \/ StatsCall
    \/ StatsPlayersAttempt
    \/ StatsSeasonAttempt
    \/ StatsLogsAttempt

SpecFetch == InitFetch /\ [][NextFetch]_vars

-----------------------------------------------------------------------------
(* Properties *)

Terminal == pc \in {"rejected", "composed", "empty"}
WalkDone == pc = "select" /\ walk > Len(prop_confidence_list)

\* the props of the current game as fetched, over all groups
RECURSIVE Flatten(_)
Flatten(props) == IF props = <<>> THEN <<>> ELSE Head(props).val \o Flatten(Tail(props))

\* the (player, stat category) pairs of the fetched props an entry stands for
PairsOf(item) ==
    LET fetched == Flatten(available_props)
    IN  {<<fetched[i].player, fetched[i].prop_type>> :
            i \in {k \in 1..Len(fetched) : fetched[k].prop_name = item.prop_name}}

DistinctKeys(list) ==
    \A i, j \in 1..Len(list) : i # j => list[i].player_stat_key # list[j].player_stat_key

KeysOf(list) == {list[i].player_stat_key : i \in 1..Len(list)}

FirstIndex(list, x) == CHOOSE i \in 1..Len(list) : list[i] = x /\ \A k \in 1..(i - 1) : list[k] # x

InUnit(c) == FLe(FInt(0), c) /\ FLe(c, FInt(1))

(* C1: within one game's selected props no two entries have the same
   (player, stat category) key, whatever their direction or line; this
   holds during the walk and for every game already stored. *)
C1_NoDuplicateKeys ==
    /\ DistinctKeys(game_selected_props)
    /\ \A g \in 1..Len(selected_props) : DistinctKeys(selected_props[g].val)
    /\ pc = "select" =>
          \A i, j \in 1..Len(game_selected_props) :
              i # j => PairsOf(game_selected_props[i]) \cap PairsOf(game_selected_props[j]) = {}

\* a finished walk with room left under the cap in which two candidates of
\* one key and opposite directions were met
C1_Witness ==
    /\ WalkDone
    /\ Len(game_selected_props) < props_per_game
    /\ \E i, j \in 1..Len(prop_confidence_list) :
          /\ prop_confidence_list[i].player_stat_key = prop_confidence_list[j].player_stat_key
          /\ prop_confidence_list[i].direction # prop_confidence_list[j].direction

(* C2: the number of props selected for a game never exceeds props_per_game,
   during the walk and in everything stored for finished games. *)
C2_PerGameCap ==
    /\ props_per_game \in MinPropsPerGame..MaxPropsPerGame
    /\ Len(game_selected_props) <= props_per_game
    /\ \A g \in 1..Len(selected_props) : Len(selected_props[g].val) <= props_per_game
    /\ \A g \in 1..Len(game_prop_data) : game_prop_data[g].num_props <= props_per_game

\* a finished walk that met more distinct keys than the cap allows
C2_Witness ==
    /\ WalkDone
    /\ Len(game_selected_props) = props_per_game
    /\ Cardinality(KeysOf(prop_confidence_list)) > props_per_game

(* C3 as stated: the total number of props held in the Selection is at most 24. *)
C3_TotalAtMost24 ==
    total_props <= MaxTotalProps /\ SumLens(selected_props) <= MaxTotalProps

(* C3 amended: total_props is the sum of the per-game lists and is at most
   the number of selected games times props_per_game; it is at most 24 in
   every Selection that reaches the final summary, a larger total is
   rejected there. *)
C3_TotalBounded ==
    /\ total_props = SumLens(selected_props)
    /\ total_props <= Len(feed) * props_per_game
    /\ pc \in {"summary", "composed"} => total_props <= MaxTotalProps

\* a parlay composed from exactly 24 props
C3_Witness == pc = "composed" /\ total_props = MaxTotalProps

(* C4: during and after the walk, every selected prop has the highest
   confidence among all candidates of the game that passed the filters and
   share its (player, stat category) key, and it is the only one selected
   for that key. *)
C4_BestPerKey ==
    pc = "select" =>
        \A i \in 1..Len(game_selected_props) :
            LET chosen == game_selected_props[i]
            IN  /\ \A k \in 1..Len(built_list) :
                       built_list[k].player_stat_key = chosen.player_stat_key
                           => FLe(built_list[k].confidence, chosen.confidence)
                /\ \A j \in 1..Len(game_selected_props) :
                       game_selected_props[j].player_stat_key = chosen.player_stat_key => j = i

\* a finished walk where a lower-confidence line of the chosen key was
\* built before the chosen one
C4_Witness ==
    /\ WalkDone
    /\ \E i \in 1..Len(game_selected_props) :
          \E k \in 1..Len(built_list) :
              /\ built_list[k].player_stat_key = game_selected_props[i].player_stat_key
              /\ FLt(built_list[k].confidence, game_selected_props[i].confidence)
              /\ k < FirstIndex(built_list, game_selected_props[i])

(* C5: a game's selected props are in non-increasing order of confidence,
   and selected props of equal confidence keep the order in which the
   scoring loop produced them. *)
C5_OrderedStable ==
    /\ \A g \in 1..Len(selected_props) :
          \A i, j \in 1..Len(selected_props[g].val) :
              i < j => FLe(selected_props[g].val[j].confidence, selected_props[g].val[i].confidence)
    /\ pc = "select" =>
          \A i, j \in 1..Len(game_selected_props) :
              i < j =>
                  /\ FLe(game_selected_props[j].confidence, game_selected_props[i].confidence)
                  /\ game_selected_props[i].confidence = game_selected_props[j].confidence
                        => FirstIndex(built_list, game_selected_props[i])
                               < FirstIndex(built_list, game_selected_props[j])

\* a finished walk with two selected props of equal confidence, and a
\* selected prop that the sort moved in front of an earlier-built one
C5_Witness ==
    /\ WalkDone
    /\ \E i, j \in 1..Len(game_selected_props) :
          i < j /\ game_selected_props[i].confidence = game_selected_props[j].confidence
    /\ \E i, j \in 1..Len(game_selected_props) :
          /\ i < j
          /\ FirstIndex(built_list, game_selected_props[i])
                 > FirstIndex(built_list, game_selected_props[j])

(* C6: with the odds filter active, a fetched candidate is removed by the
   filters exactly when its own odds are outside [min_odds, max_odds] or
   its stat category is not allowed: every candidate in range with an
   allowed category is scored, and no selected prop is out of range. *)
C6_OddsFilterPerCandidate ==
    (use_odds_filter /\ pc \in {"score", "sort", "select"}) =>
        LET fetched == Flatten(available_props)
            kept == Flatten(filtered_props)
            InRange(p) == min_odds <= p.odds /\ p.odds <= max_odds
            Allowed(p) == prop_types = {} \/ p.prop_type \in prop_types
        IN  /\ \A i \in 1..Len(fetched) :
                   (InRange(fetched[i]) /\ Allowed(fetched[i]))
                       <=> (\E k \in 1..Len(kept) : kept[k] = fetched[i])
            /\ pc = "select" =>
                   \A i \in 1..Len(game_selected_props) : InRange(game_selected_props[i])

(* C7: final combined odds and payout are computed only for a total of 1 to
   24 props; a build that ends with total 0 ends in the empty state, one
   with a total above 24 ends in the rejected state, and neither of those
   holds combined odds or a payout. *)
C7_ComposeOnlyInRange ==
    /\ (final_odds # None \/ payout # None) => pc = "composed"
    /\ pc \in {"summary", "composed"} => (1 <= total_props /\ total_props <= MaxTotalProps)
    /\ pc = "composed" => (final_odds # None /\ payout # None)
    /\ Terminal => /\ (pc = "empty" <=> total_props = 0)
                   /\ (pc = "rejected" <=> total_props > MaxTotalProps)

\* a build rejected for more than 24 props, nothing composed
C7_Witness == pc = "rejected" /\ total_props > MaxTotalProps /\ final_odds = None

(* C8: calculate_parlay_odds of a single leg o, nonzero and of magnitude at
   least 100, returns o. *)
C8_SingleLegRoundTrip ==
    (fn = "returned" /\ args[1] = "calculate_parlay_odds" /\ Len(args[2]) = 1
        /\ Abs(args[2][1]) >= 100)
    => result = Some(Num(args[2][1]))

(* C9: odds of 0 given to calculate_parlay_odds or detect_line_discrepancies
   produce the explicit InvalidOdds failure, never a numeric result. *)
C9_ZeroOddsRejected ==
    (fn = "returned" /\
        \/ args[1] = "calculate_parlay_odds" /\ \E i \in 1..Len(args[2]) : args[2][i] = 0
        \/ args[1] = "detect_line_discrepancies" /\ args[2] = 0)
    => result = Some(InvalidOdds)

(* C10: adjust_confidence_with_stats keeps the confidence in [0,1]: after
   the season step and again after the historical step, for any start in
   [0,1], any season and historical average, present or absent, any line
   and either direction. *)
C10_ConfidenceInUnit ==
    (args # <<>> /\ args[1] = "adjust_confidence_with_stats" /\ fn \in {"season_done", "returned"})
    => InUnit(result[1])

\* a return where both steps ran and the historical step had to clamp
C10_Witness ==
    /\ fn = "returned"
    /\ args[1] = "adjust_confidence_with_stats"
    /\ args[3] # None /\ Truthy(args[6]) /\ args[4] > 0
    /\ LET c1 == SeasonStep(args[2], args[3][1], args[4], args[5])
           raw == FAdd(c1, FMul(Adjustment(args[6][1], args[4], args[5]), Frac(2, 10)))
       IN  ~InUnit(raw) /\ FLt(FInt(0), c1) /\ FLt(c1, FInt(1))

(* C11: with a season average present and a historical average present,
   zero included, adjust_confidence_with_stats returns the season-adjusted
   score moved by 0.2 times the historical deviation and clamped; only an
   absent historical average leaves the season-adjusted score. *)
C11_HistoricalApplied ==
    (fn = "returned" /\ args[1] = "adjust_confidence_with_stats" /\ args[3] # None)
    => LET s1 == SeasonStep(args[2], args[3][1], args[4], args[5])
       IN  result = Some(IF args[6] # None
                         THEN Clamp01(FAdd(s1, FMul(Adjustment(args[6][1], args[4], args[5]),
                                                    Frac(2, 10))))
                         ELSE s1)

\* the step function as the claim states it
StatedBaseConfidence(odds) ==
    IF odds <= -300 THEN Frac(9, 10)
    ELSE IF -300 < odds /\ odds <= -200 THEN Frac(4, 5)
    ELSE IF -200 < odds /\ odds <= -100 THEN Frac(7, 10)
    ELSE IF -100 < odds /\ odds <= 100 THEN Frac(3, 5)
    ELSE Frac(1, 2)

(* C12: for every integer odds value get_initial_confidence returns 0.9 up
   to -300, 0.8 in (-300,-200], 0.7 in (-200,-100], 0.6 in (-100,100] and
   0.5 above, and the value does not rise when the odds rise by one. *)
C12_BaseConfidenceSteps ==
    (fn = "returned" /\ args[1] = "get_initial_confidence")
    => /\ result = Some(StatedBaseConfidence(args[2]))
       /\ FLe(get_initial_confidence(args[2] + 1), result[1])

\* the call at the boundary -300, just before the value drops to 0.8
C12_Witness ==
    /\ fn = "returned"
    /\ args[1] = "get_initial_confidence"
    /\ args[2] = -300
    /\ result = Some(Frac(9, 10))
    /\ get_initial_confidence(args[2] + 1) = Frac(4, 5)

\* the stats key of each stat category, as the claim pairs them
CategoryStatKey(prop_type) ==
    CASE prop_type = "points" -> "pts"
      [] prop_type = "rebounds" -> "reb"
      [] prop_type = "assists" -> "ast"
      [] prop_type = "steals" -> "stl"
      [] prop_type = "blocks" -> "blk"
      [] OTHER -> prop_type

(* C13: when the player's stats hold a season average for a prop's stat
   category, the scoring loop gives that average, and the category's
   historical average when there is one, to adjust_confidence_with_stats,
   so each scored prop carries the stats-adjusted confidence. *)
C13_CategoryStatsUsed ==
    pc = "sort" =>
        LET kept == Flatten(filtered_props)
        IN  \A i \in 1..Len(built_list) :
                LET p == kept[i]
                    player_stats == stats_source[p.player]
                    k == CategoryStatKey(p.prop_type)
                IN  (player_stats # None /\ "season" \in DOMAIN player_stats
                        /\ k \in DOMAIN player_stats.season)
                    => built_list[i].confidence =
                          adjust_confidence_with_stats(
                              get_initial_confidence(p.odds),
                              Some(player_stats.season[k]), p.point, p.direction,
                              IF player_stats.historical # None
                                 /\ k \in DOMAIN player_stats.historical
                              THEN Some(player_stats.historical[k]) ELSE None)

RetryLoopCall == args # <<>> /\ args[1] \in {"fetch_odds_api_events", "fetch_props"}
InRetryLoop == fn \in {"events_loop", "props_loop"}
LastKind == IF last_outcome = None THEN "none" ELSE last_outcome[1].kind

\* what a successful response makes the function return
FetchedValue ==
    IF args[1] = "fetch_odds_api_events"
    THEN EventsReturn(last_outcome[1].data)
    ELSE fetch_props(last_outcome[1].data)

C14_StateOk ==
    RetryLoopCall =>
        /\ attempts <= args[3]
        /\ InRetryLoop => (retries = attempts /\ result = None
                           /\ (attempts > 0 => LastKind \in {"429", "network"}))
        /\ LastKind \in {"401", "500"} => (fn = "returned" /\ result = Some(<<>>))
        /\ (LastKind \in {"429", "network"} /\ retries < args[3]) => InRetryLoop
        /\ fn = "returned" =>
              \/ result = Some(<<>>)
              \/ LastKind = "ok" /\ result = Some(FetchedValue)

C14_StepOk ==
    (RetryLoopCall /\ InRetryLoop) =>
        (fn' = "returned" \/ (fn' = fn /\ retries' = retries + 1 /\ attempts' = attempts + 1))

(* C14: for any outcomes of the requests and any max_retries >= 1,
   fetch_odds_api_events and fetch_props send at most max_retries requests,
   every pass through the loop either returns or uses up one retry, and the
   return value is the fetched data or an empty collection; HTTP 401 and
   other non-429 HTTP errors return empty at once, and only HTTP 429 and
   network errors lead to another attempt. *)
C14_FetchBounded == [](C14_StateOk) /\ [][C14_StepOk]_vars

\* fetch_props succeeding with data on the last attempt max_retries allows
C14_Witness ==
    /\ fn = "returned"
    /\ args[1] = "fetch_props"
    /\ args[3] >= 2
    /\ attempts = args[3]
    /\ LastKind = "ok"
    /\ result # Some(<<>>)

(* C15: fetch_player_stats returns None or a record with exactly the
   fields season and historical; when the game-log requests run out of
   retries the record still holds the season averages under season, with
   historical None, so that the caller finds the season average. *)
C15_StatsResultShape ==
    (fn = "returned" /\ args[1] = "fetch_player_stats") =>
        /\ \/ result[1] = None
           \/ /\ DOMAIN result[1] = {"season", "historical"}
              /\ result[1].season = locals.season_stats[1]
        /\ (locals.season_stats # None /\ LastKind # "ok") =>
              /\ result[1] = StatsResult(locals.season_stats[1], None)
              /\ SeasonStat(result[1], "reb") = Some(locals.season_stats[1].reb)

====
